---- MODULE Spec2Model ----
(***************************************************************************)
(* Model of src/src/App.tsx: the effect that builds the three.js scene,    *)
(* the shooting-star pool, the self-rescheduling animate() callback, the   *)
(* window resize handler and the effect's cleanup function.                *)
(*                                                                         *)
(* Coordinates and velocities are Float32 values in the source.  A value   *)
(* is held as an integer number of units of 2^-18 (Unit = 2^18 per world   *)
(* unit); every Float32 of magnitude in [32, 2048) is such an integer, and *)
(* storing into a Float32Array is modelled by F32Round: round to nearest,  *)
(* ties to even, at the spacing 2^(e-23) of the value's binade.  Values    *)
(* the code stores with magnitude below 2^-19 (the residue of              *)
(* Math.sin(Math.PI), about 1e-13) are held as 0.                          *)
(* A result of Math.random() is modelled as k/RandDen, k in 0..RandDen-1.  *)
(* The sampling operators are defined on a part of the draws only:         *)
(*   - theta on eighth turns, cos(phi) in {-1, -4/5, -3/5, 0, 3/5, 4/5},   *)
(*     any radius draw: the stored coordinate is the Float32 nearest to    *)
(*     radius * sin(phi) * cos(theta), the value the code stores;          *)
(*   - velocity draws whose product (k/RandDen - 0.5) * 0.3 is a multiple  *)
(*     of 2^-18, which the code stores exactly.                            *)
(* A spawn takes its nine draws from Draws, the first MaxDraws tuples of   *)
(* DrawList.  Rotation angles are counted in units of 0.0001 rad.          *)
(***************************************************************************)
EXTENDS Integers, Sequences, FiniteSets, TLC

\* ------------------------------------------------------------------ bounds
MaxTicks == 2
MaxDraws == 4

\* ------------------------------------------------------- program constants
N == 5
SphereStep == 10
StarFieldStep == 2

\* units per world unit, and the denominator of a Math.random() result
Unit == 262144
RandDen == 28800

Limit == 1000 * Unit
RMin == 100 * Unit
RSpan == 900 * Unit
Eighth == RandDen \div 8
Half == RandDen \div 2

VARIABLES canvas, effect, listener, rafPending, pc, slot, ticks, renders,
          calls, scene, shootingStars, nextId, sphereRot, starFieldRot,
          window, camera, rendererSize

vars == <<canvas, effect, listener, rafPending, pc, slot, ticks, renders,
          calls, scene, shootingStars, nextId, sphereRot, starFieldRot,
          window, camera, rendererSize>>

Abs(x) == IF x < 0 THEN -x ELSE x

RECURSIVE Gcd(_, _)
Gcd(a, b) == IF b = 0 THEN a ELSE Gcd(b, a % b)

\* window.innerWidth / window.innerHeight, kept as a fraction in lowest terms
Aspect(w) == <<w[1] \div Gcd(w[1], w[2]), w[2] \div Gcd(w[1], w[2])>>

\* window.innerWidth, window.innerHeight: the size when the effect runs and
\* the sizes a resize can lead to
InitialWindow == <<8, 6>>
WindowSizes == {<<8, 6>>, <<6, 6>>}

\* ------------------------------------------------------- Float32 storage
\* spacing, in units, of the Float32 values around a magnitude of a units:
\* 1 below 64 world units, doubling with every binade (24-bit significand)
RECURSIVE Doubling(_)
Doubling(q) == IF q = 0 THEN 1 ELSE 2 * Doubling(q \div 2)
Ulp(a) == Doubling(a \div (64 * Unit))

\* the Float32 nearest to i + num/den units, ties to even (i >= 0, 0 <= num < den)
F32Round(i, num, den) ==
    LET u == Ulp(i)
        lo == (i \div u) * u
        r == i - lo
        side == IF u = 1
                THEN (IF 2 * num > den THEN 1 ELSE IF 2 * num < den THEN -1 ELSE 0)
                ELSE (IF 2 * r < u THEN -1
                      ELSE IF 2 * r > u THEN 1
                      ELSE IF num > 0 THEN 1 ELSE 0)
    IN IF side < 0 THEN lo
       ELSE IF side > 0 THEN lo + u
       ELSE IF (lo \div u) % 2 = 0 THEN lo ELSE lo + u

\* storing the exact sum x (an integer number of units) into a Float32Array
F32Store(x) == IF x < 0 THEN -F32Round(-x, 0, 1) ELSE F32Round(x, 0, 1)

\* ----------------------------------------------------- spherical sampling
\* theta = Math.random() * 2 * PI, for draws on an eighth turn.  The cosine
\* and the sine are <<s, d>>, standing for s * (sqrt(2)/2)^d.
CosTheta(k) == CASE k = 0 -> <<1, 0>>
                 [] k = Eighth -> <<1, 1>>
                 [] k = 2 * Eighth -> <<0, 0>>
                 [] k = 3 * Eighth -> <<-1, 1>>
                 [] k = 4 * Eighth -> <<-1, 0>>
                 [] k = 5 * Eighth -> <<-1, 1>>
                 [] k = 6 * Eighth -> <<0, 0>>
                 [] k = 7 * Eighth -> <<1, 1>>
SinTheta(k) == CASE k = 0 -> <<0, 0>>
                 [] k = Eighth -> <<1, 1>>
                 [] k = 2 * Eighth -> <<1, 0>>
                 [] k = 3 * Eighth -> <<1, 1>>
                 [] k = 4 * Eighth -> <<0, 0>>
                 [] k = 5 * Eighth -> <<-1, 1>>
                 [] k = 6 * Eighth -> <<-1, 0>>
                 [] k = 7 * Eighth -> <<-1, 1>>
\* phi = Math.acos(Math.random() * 2 - 1): cos(phi) = 2k/RandDen - 1 for
\* every k (numerator over RandDen); sin(phi) for the draws where it is
\* rational (numerator over PhiDen).  PhiK(c) is the draw with cos(phi) = c/5.
PhiDen == 5
PhiK(c) == ((PhiDen + c) * RandDen) \div (2 * PhiDen)
CosPhi(k) == 2 * k - RandDen
SinPhi(k) == CASE k = PhiK(-5) -> 0
               [] k \in {PhiK(-4), PhiK(4)} -> 3
               [] k \in {PhiK(-3), PhiK(3)} -> 4
               [] k = PhiK(0) -> 5
\* radius = 100 + Math.random() * 900, exact, in 1/RadUnit world units
RadUnit == RandDen \div (RSpan \div Unit)
UnitsPerRad == Unit \div RadUnit
RadiusWide(k) ==
    RMin \div UnitsPerRad + (k * (RSpan \div UnitsPerRad + 50 * RadUnit)) \div RandDen
Radius(k) == RMin \div UnitsPerRad + (k * (RSpan \div UnitsPerRad)) \div RandDen

\* sqrt(2)/2 = 0.7071 0678 1186 5475, in groups of four decimal digits
DecLimb == 10000
SqrtHalf == <<7071, 678, 1186, 5475>>
\* (y + num/den) * sqrt(2)/2 as an integer and a fraction of units
MulDiag(y, num, den) ==
    LET y1 == y \div DecLimb
        y0 == y % DecLimb
        low2 == y1 * SqrtHalf[4] + y0 * SqrtHalf[3]
        low == y1 * SqrtHalf[3] + y0 * SqrtHalf[2] + low2 \div DecLimb
        fr == (num * SqrtHalf[1]) \div den
        mid == y1 * SqrtHalf[2] + y0 * SqrtHalf[1] + low \div DecLimb + fr
    IN [int |-> y1 * SqrtHalf[1] + mid \div DecLimb,
        num |-> (mid % DecLimb) * DecLimb + (low % DecLimb),
        den |-> DecLimb * DecLimb]

\* radius * Math.sin(phi), in units, as an integer and a fraction
Planar(kp, kr) ==
    LET p == Radius(kr) * SinPhi(kp) * UnitsPerRad
    IN [int |-> p \div PhiDen, num |-> p % PhiDen, den |-> PhiDen]

\* the Float32 stored for w * t, t a cosine or sine of theta
StoredProduct(w, t) ==
    IF t[1] = 0 \/ (w.int = 0 /\ w.num = 0) THEN 0
    ELSE LET v == IF t[2] = 1 THEN MulDiag(w.int, w.num, w.den) ELSE w
         IN t[1] * F32Round(v.int, v.num, v.den)

\* the Float32 stored for radius * Math.cos(phi)
StoredZ(kp, kr) ==
    LET g == Gcd(UnitsPerRad, RandDen)
        mul == UnitsPerRad \div g
        den == RandDen \div g
        a == Radius(kr) * Abs(CosPhi(kp))
        rem == (a % den) * mul
        mag == F32Round((a \div den) * mul + rem \div den, rem % den, den)
    IN IF CosPhi(kp) < 0 THEN -mag ELSE mag

\* vertices[3i..3i+2], lines 150-152
SamplePoint(kt, kp, kr) ==
    <<StoredProduct(Planar(kp, kr), CosTheta(kt)),
      StoredProduct(Planar(kp, kr), SinTheta(kt)),
      StoredZ(kp, kr)>>

\* (Math.random() - 0.5) * 0.3 = (2k - RandDen) * 3 / (20 * RandDen), in units,
\* for the draws where it is a whole number of units
VelNum == (3 * Unit) \div Gcd(3 * Unit, 20 * RandDen)
VelDen == (20 * RandDen) \div Gcd(3 * Unit, 20 * RandDen)
VelocityComp(k) ==
    CHOOSE v \in {((2 * k - RandDen) * VelNum) \div VelDen} :
        v * VelDen = (2 * k - RandDen) * VelNum

\* Draws of Math.random() used below.  RadK(j): radius 1000 - j/32.
\* VelK(m): velocity m/256.
RadK(j) == RandDen - j
VelK(m) == Half + (m * (Unit \div 256) * VelDen) \div (2 * VelNum)

\* The nine Math.random() results of one createShootingStar call, in call
\* order: (theta, phi, radius) for each endpoint, then the three velocities.
\*  1: first endpoint on +x just inside the bound, leaving on x; second
\*     endpoint off the axes; three non-zero velocity components
\*  2: first endpoint on -y, leaving on y
\*  3: first endpoint on -z, leaving on z
\*  4: first endpoint off the axes at the inner radius and moving inward on
\*     every axis; second endpoint on -y, leaving on y
\*  5: both endpoints off the axes, far from the bound, odd radius draws
\*  6: both endpoints at the inner radius (Math.random() = 0)
DrawList ==
    << <<0, PhiK(0), RadK(1),            3 * Eighth, PhiK(3), RandDen \div 3,
         VelK(8), VelK(5), VelK(-37)>>,
       <<6 * Eighth, PhiK(0), RadK(1),   Eighth, PhiK(-3), Half,
         VelK(-3), VelK(-8), VelK(11)>>,
       <<5 * Eighth, PhiK(-5), RadK(2),  7 * Eighth, PhiK(4), RandDen \div 5,
         VelK(1), VelK(-1), VelK(-16)>>,
       <<Eighth, PhiK(-4), 0,            6 * Eighth, PhiK(0), RadK(1),
         VelK(-3), VelK(-24), VelK(38)>>,
       <<3 * Eighth, PhiK(3), Half + 1,  5 * Eighth, PhiK(-3), RandDen \div 4 + 1,
         VelK(7), VelK(38), VelK(0)>>,
       <<0, 0, 0,                        4 * Eighth, PhiK(0), 1,
         VelK(-38), VelK(0), VelK(-1)>> >>
Draws == {DrawList[i] : i \in 1..MaxDraws}

NullStar == [id |-> 0, positions |-> <<0, 0, 0, 0, 0, 0>>, velocity |-> <<0, 0, 0>>]

createShootingStar(d, id) ==
    [id |-> id,
     positions |-> SamplePoint(d[1], d[2], d[3]) \o SamplePoint(d[4], d[5], d[6]),
     velocity |-> <<VelocityComp(d[7]), VelocityComp(d[8]), VelocityComp(d[9])>>]

Entity(kind, id) == [kind |-> kind, id |-> id]
FixedEntities == {Entity("sphere", 0), Entity("sunlight", 0), Entity("ambientLight", 0),
                  Entity("hemisphereLight", 0), Entity("starField", 0)}
SceneAdd(sc, id) == sc \cup {Entity("shootingStar", id)}
SceneRemoveNothing(sc, id) == sc
SceneRemove(sc, id) == sc \ {Entity("shootingStar", id)}

\* ------------------------------------------------------------ star update
Advance(positions, velocity) ==
    [k \in 1..Len(positions) |-> F32Store(positions[k] + velocity[((k - 1) % 3) + 1])]

IsOutOfBoundsInclusive(positions) ==
    \/ Abs(positions[1]) >= Limit
    \/ Abs(positions[2]) >= Limit
    \/ Abs(positions[3]) >= Limit

IsOutOfBoundsAnyEndpoint(positions) ==
    \E k \in 1..Len(positions) : Abs(positions[k]) > Limit

IsOutOfBounds(positions) ==
    \/ Abs(positions[1]) > Limit
    \/ Abs(positions[2]) > Limit
    \/ Abs(positions[3]) > Limit

\* lookup by value (equal velocity) instead of by identity
indexOfByValue(arr, star) ==
    IF \E i \in 1..Len(arr) : arr[i].velocity = star.velocity
    THEN CHOOSE i \in 1..Len(arr) :
            /\ arr[i].velocity = star.velocity
            /\ \A j \in 1..(i - 1) : arr[j].velocity # star.velocity
    ELSE 0

\* Array.prototype.indexOf by object identity; 0 stands for -1 (not found)
indexOf(arr, star) ==
    IF \E i \in 1..Len(arr) : arr[i].id = star.id
    THEN CHOOSE i \in 1..Len(arr) :
            /\ arr[i].id = star.id
            /\ \A j \in 1..(i - 1) : arr[j].id # star.id
    ELSE 0

InstallPush(arr, index, newStar) == Append(arr, newStar)

Install(arr, index, newStar) ==
    IF index \in 1..Len(arr) THEN [arr EXCEPT ![index] = newStar] ELSE arr

\* order of the statements of animate() after requestAnimationFrame and the
\* two rotations
AnimateStepsRenderFirst == <<"stars", "render", "controls">>
AnimateSteps == <<"stars", "controls", "render">>
StepAfter(p) ==
    LET i == CHOOSE k \in 1..Len(AnimateSteps) : AnimateSteps[k] = p
    IN IF i < Len(AnimateSteps) THEN AnimateSteps[i + 1] ELSE "idle"

\* ------------------------------------------------------------------- Init
Init ==
    /\ canvas \in BOOLEAN
    /\ window = InitialWindow
    /\ effect = "pending"
    /\ listener = FALSE
    /\ rafPending = FALSE
    /\ pc = "idle"
    /\ slot = 0
    /\ ticks = 0
    /\ renders = 0
    /\ calls = <<>>
    /\ scene = {}
    /\ shootingStars = <<>>
    /\ nextId = 1
    /\ sphereRot = 0
    /\ starFieldRot = 0
    /\ camera = <<>>
    /\ rendererSize = <<>>

\* useEffect body, line 11: no canvas, return without a cleanup function
EffectNoCanvas ==
    /\ effect = "pending"
    /\ ~canvas
    /\ effect' = "void"
    /\ UNCHANGED <<canvas, listener, rafPending, pc, slot, ticks, renders, calls,
                   scene, shootingStars, nextId, sphereRot, starFieldRot,
                   window, camera, rendererSize>>

\* useEffect body, lines 13-173: scene, camera, renderer, lights, star field
\* and Array(5).fill(null).map(createShootingStar)
EffectSetup ==
    /\ effect = "pending"
    /\ canvas
    /\ \E ds \in [1..N -> Draws] :
         LET filled == [i \in 1..N |-> NullStar]
             mapped == [i \in 1..N |-> createShootingStar(ds[i], nextId + i - 1)]
         IN /\ shootingStars' = mapped
            /\ scene' = FixedEntities \cup
                          {Entity("shootingStar", mapped[i].id) : i \in 1..Len(filled)}
    /\ nextId' = nextId + N
    /\ camera' = Aspect(window)
    /\ rendererSize' = window
    /\ effect' = "running"
    /\ UNCHANGED <<canvas, listener, rafPending, pc, slot, ticks, renders, calls,
                   sphereRot, starFieldRot, window>>

\* animate(), lines 177-179
AnimateBegin ==
    /\ pc = "idle"
    /\ rafPending' = TRUE
    /\ sphereRot' = sphereRot + SphereStep
    /\ starFieldRot' = starFieldRot + StarFieldStep
    /\ ticks' = ticks + 1
    /\ calls' = <<"requestAnimationFrame">>
    /\ pc' = AnimateSteps[1]
    /\ slot' = 1
    /\ UNCHANGED <<canvas, effect, listener, renders, scene, shootingStars, nextId,
                   window, camera, rendererSize>>

\* line 210: the effect calls animate() synchronously
EffectCallsAnimate ==
    /\ effect = "running"
    /\ ticks = 0
    /\ AnimateBegin

\* the frame callback registered by requestAnimationFrame fires
FrameCallback ==
    /\ effect \in {"cleanup", "torn"}
    /\ rafPending
    /\ ticks < MaxTicks
    /\ AnimateBegin

\* one invocation of the forEach callback, lines 182-205
StarStep ==
    /\ pc = "stars"
    /\ slot \in 1..Len(shootingStars)
    /\ LET star == shootingStars[slot]
           moved == [star EXCEPT !.positions = Advance(star.positions, star.velocity)]
           arr == [shootingStars EXCEPT ![slot] = moved]
       IN IF IsOutOfBounds(moved.positions)
          THEN \E d \in Draws :
                 LET newStar == createShootingStar(d, nextId)
                     index == indexOf(arr, moved)
                 IN /\ scene' = SceneRemove(SceneAdd(scene, newStar.id), moved.id)
                    /\ shootingStars' = Install(arr, index, newStar)
                    /\ nextId' = nextId + 1
          ELSE /\ shootingStars' = arr
               /\ UNCHANGED <<scene, nextId>>
    /\ calls' = Append(calls, "star")
    /\ IF slot < N
       THEN slot' = slot + 1 /\ pc' = pc
       ELSE slot' = 0 /\ pc' = StepAfter(pc)
    /\ UNCHANGED <<canvas, effect, listener, rafPending, ticks, renders,
                   sphereRot, starFieldRot, window, camera, rendererSize>>

\* line 207
ControlsUpdate ==
    /\ pc = "controls"
    /\ calls' = Append(calls, "controls.update")
    /\ pc' = StepAfter(pc)
    /\ UNCHANGED <<canvas, effect, listener, rafPending, slot, ticks, renders, scene,
                   shootingStars, nextId, sphereRot, starFieldRot, window, camera,
                   rendererSize>>

\* line 208
Render ==
    /\ pc = "render"
    /\ calls' = Append(calls, "renderer.render")
    /\ renders' = renders + 1
    /\ pc' = StepAfter(pc)
    /\ UNCHANGED <<canvas, effect, listener, rafPending, slot, ticks, scene,
                   shootingStars, nextId, sphereRot, starFieldRot, window, camera,
                   rendererSize>>

\* lines 213-223: register the resize listener, return the cleanup function
EffectFinish ==
    /\ effect = "running"
    /\ pc = "idle"
    /\ ticks = 1
    /\ listener' = TRUE
    /\ effect' = "cleanup"
    /\ UNCHANGED <<canvas, rafPending, pc, slot, ticks, renders, calls, scene,
                   shootingStars, nextId, sphereRot, starFieldRot, window, camera,
                   rendererSize>>

handleResizeResetRotation ==
    /\ camera' = Aspect(window')
    /\ rendererSize' = window'
    /\ sphereRot' = 0
    /\ starFieldRot' = 0
    /\ UNCHANGED <<scene, shootingStars, nextId>>

\* handleResize, lines 213-217 (reads the new window size)
handleResize ==
    /\ camera' = Aspect(window')
    /\ rendererSize' = window'
    /\ UNCHANGED <<scene, shootingStars, nextId, sphereRot, starFieldRot>>

\* a "resize" event is dispatched to the listener registered at line 218,
\* between two callbacks; without a registered listener no code runs
Resize ==
    /\ listener
    /\ pc = "idle"
    /\ \E w \in WindowSizes : w # window /\ window' = w
    /\ handleResize
    /\ UNCHANGED <<canvas, effect, listener, rafPending, pc, slot, ticks, renders, calls>>

\* the cleanup function, lines 221-223
Cleanup ==
    /\ effect = "cleanup"
    /\ pc = "idle"
    /\ listener' = FALSE
    /\ effect' = "torn"
    /\ UNCHANGED <<canvas, rafPending, pc, slot, ticks, renders, calls, scene,
                   shootingStars, nextId, sphereRot, starFieldRot, window, camera,
                   rendererSize>>

Next ==
    \/ EffectNoCanvas
    \/ EffectSetup
    \/ EffectCallsAnimate
    \/ FrameCallback
    \/ StarStep
    \/ ControlsUpdate
    \/ Render
    \/ EffectFinish
    \/ Resize
    \/ Cleanup

Spec == Init /\ [][Next]_vars

\* ================================================================ claims
PoolIds(arr) == {arr[i].id : i \in 1..Len(arr)}
SceneStars == {e \in scene : e.kind = "shootingStar"}
Replacements == {i \in 1..Len(shootingStars) : shootingStars[i].id > N}
MovedAt(i) == Advance(shootingStars[i].positions, shootingStars[i].velocity)
FirstBeyond(p) ==
    \/ p[1] > Limit \/ p[1] < -Limit
    \/ p[2] > Limit \/ p[2] < -Limit
    \/ p[3] > Limit \/ p[3] < -Limit
FirstWithin(p) == ~FirstBeyond(p)
FirstTouches(p) == FirstWithin(p) /\ \E k \in 1..3 : Abs(p[k]) = Limit
SecondBeyond(p) == \E k \in 4..6 : Abs(p[k]) > Limit
\* squared distance of endpoint e (0 or 1) from the origin, exact, as three
\* digits <<h, m, l>> in base LimbBase: h * LimbBase^2 + m * LimbBase + l
LimbBase == Unit \div 16
DistSq(p, e) ==
    LET hi(k) == Abs(p[3 * e + k]) \div LimbBase
        lo(k) == Abs(p[3 * e + k]) % LimbBase
        l == lo(1) * lo(1) + lo(2) * lo(2) + lo(3) * lo(3)
        m == 2 * (hi(1) * lo(1) + hi(2) * lo(2) + hi(3) * lo(3)) + l \div LimbBase
        h == hi(1) * hi(1) + hi(2) * hi(2) + hi(3) * hi(3) + m \div LimbBase
    IN <<h, m % LimbBase, l % LimbBase>>
RMinSq == (RMin \div LimbBase) * (RMin \div LimbBase)
LimitSq == (Limit \div LimbBase) * (Limit \div LimbBase)
\* 100 <= distance <= 1000, exactly
InShell(p, e) ==
    /\ DistSq(p, e)[1] >= RMinSq
    /\ \/ DistSq(p, e)[1] < LimitSq
       \/ DistSq(p, e) = <<LimitSq, 0, 0>>
\* a >= b for two numbers given by their three digits
DigitsGeq(a, b) ==
    \/ a[1] > b[1]
    \/ a[1] = b[1] /\ a[2] > b[2]
    \/ a[1] = b[1] /\ a[2] = b[2] /\ a[3] >= b[3]
\* sq * LimbBase^2 / RelTol, counted in middle digits: the 2^-22 part of a
\* squared radius
RelTol == 16 * Unit
Slack(sq) == sq \div (RelTol \div LimbBase)
ShellLow ==
    IF Slack(RMinSq) % LimbBase = 0
    THEN <<RMinSq - Slack(RMinSq) \div LimbBase, 0, 0>>
    ELSE <<RMinSq - Slack(RMinSq) \div LimbBase - 1,
           LimbBase - (Slack(RMinSq) % LimbBase), 0>>
ShellHigh ==
    <<LimitSq + Slack(LimitSq) \div LimbBase, Slack(LimitSq) % LimbBase, 0>>
\* 100^2 * (1 - 2^-22) <= squared distance <= 1000^2 * (1 + 2^-22), which
\* puts the distance in [100 * (1 - 2^-22), 1000 * (1 + 2^-22)]
InShellRounded(p, e) ==
    /\ DigitsGeq(DistSq(p, e), ShellLow)
    /\ DigitsGeq(ShellHigh, DistSq(p, e))
Count(s, x) == Cardinality({i \in 1..Len(s) : s[i] = x})
Pos(s, x) == CHOOSE i \in 1..Len(s) : s[i] = x
Initialized == effect \in {"running", "cleanup", "torn"}
TickDone == pc = "idle" /\ ticks > 0

\* C1: once the effect has built the pool, and after any number of ticks,
\* shootingStars holds exactly N entries, each a live (non-null) star object
\* with two endpoints and a velocity.
C1_PoolSize ==
    Initialized =>
        /\ Len(shootingStars) = N
        /\ \A i \in 1..Len(shootingStars) :
             /\ shootingStars[i] # NullStar
             /\ shootingStars[i].id \in 1..(nextId - 1)
             /\ Len(shootingStars[i].positions) = 6
             /\ Len(shootingStars[i].velocity) = 3
C1_Witness == pc = "idle" /\ ticks >= 2 /\ Cardinality(Replacements) >= 2

\* C2 (as stated): a star whose first endpoint has a coordinate of absolute
\* value exactly 1000 after its advance is replaced in that same tick.
C2_Original ==
    [][(pc = "stars" /\ \E k \in 1..3 : Abs(MovedAt(slot)[k]) = Limit)
         => (shootingStars'[slot].id # shootingStars[slot].id
             /\ Len(shootingStars') = Len(shootingStars))]_vars

\* C2 (amended): a star whose first endpoint reaches exactly 1000 on an axis
\* (no coordinate beyond 1000) is NOT replaced in that tick: it stays in its
\* slot at the advanced position and the scene is untouched; it is replaced
\* in the tick whose advance takes the coordinate strictly beyond 1000, and
\* the pool size is unchanged in both cases.
C2_ExactLimitKept ==
    [][pc = "stars" =>
         /\ Len(shootingStars') = Len(shootingStars)
         /\ FirstTouches(MovedAt(slot)) =>
              /\ shootingStars'[slot].id = shootingStars[slot].id
              /\ shootingStars'[slot].positions = MovedAt(slot)
              /\ scene' = scene
         /\ (FirstTouches(shootingStars[slot].positions) /\ FirstBeyond(MovedAt(slot))) =>
              /\ shootingStars'[slot].id # shootingStars[slot].id
              /\ shootingStars'[slot].id \notin PoolIds(shootingStars)]_vars
C2_Witness ==
    /\ pc = "render"
    /\ \E i \in 1..Len(shootingStars) : FirstTouches(shootingStars[i].positions)

\* C3: once the cleanup function has run, no further tick executes: no
\* rotation, no star advance or respawn, no render call.
C3_NoTickAfterTeardown ==
    [][effect = "torn" =>
         UNCHANGED <<sphereRot, starFieldRot, shootingStars, scene, renders, ticks>>]_vars

\* C4: when the effect runs without a canvas it ends in an explicit failure
\* outcome (not a silent return), with no scene, no scheduled tick and no
\* resize listener.
C4_FailFast ==
    (~canvas /\ effect # "pending") =>
        /\ effect = "failed"
        /\ scene = {}
        /\ ~rafPending
        /\ ~listener

\* C5: a replacement is installed at the index of the star it replaces and
\* every other slot keeps its star object (identity, positions, velocity),
\* also when several slots are replaced in one tick.
C5_SameSlot ==
    [][pc = "stars" =>
         /\ \A j \in 1..Len(shootingStars) : j # slot => shootingStars'[j] = shootingStars[j]
         /\ \A j \in 1..Len(shootingStars') :
              shootingStars'[j].id \notin PoolIds(shootingStars) => j = slot
         /\ scene' # scene =>
              /\ shootingStars'[slot].id \notin PoolIds(shootingStars)
              /\ shootingStars[slot].id \notin PoolIds(shootingStars')]_vars
C5_Witness == pc = "controls" /\ ticks = 2 /\ Cardinality(Replacements) >= 2

\* C6: at every render call the shooting stars in the scene graph are exactly
\* the stars held in the pool (no orphan, never more than N).
C6_SceneMatchesPool ==
    pc = "render" =>
        /\ SceneStars = {Entity("shootingStar", id) : id \in PoolIds(shootingStars)}
        /\ Cardinality(SceneStars) = N
C6_Witness == pc = "render" /\ Replacements # {}

\* C7 (as stated): in every tick renderer.render and controls.update are each
\* called once, the pool update first, and the draw call before the
\* orbit-control update.
C7_Original ==
    TickDone =>
        /\ Count(calls, "renderer.render") = 1
        /\ Count(calls, "controls.update") = 1
        /\ Pos(calls, "renderer.render") < Pos(calls, "controls.update")

\* C7 (amended): in every tick renderer.render and controls.update are each
\* called exactly once, both after the pool update of that tick, and the
\* orbit-control update happens BEFORE the draw call.
C7_ControlsThenRender ==
    TickDone =>
        /\ Count(calls, "renderer.render") = 1
        /\ Count(calls, "controls.update") = 1
        /\ Count(calls, "star") = N
        /\ Pos(calls, "controls.update") < Pos(calls, "renderer.render")
        /\ \A i \in 1..Len(calls) :
             calls[i] = "star" => i < Pos(calls, "controls.update")
C7_Witness == TickDone /\ ticks >= 2 /\ renders = ticks

\* C8: a resize event between ticks rewrites only the camera aspect and the
\* renderer size; pool, star data, scene membership and both rotation angles
\* are unchanged.
C8_ResizeOnlyCamera ==
    [][window' # window =>
         /\ UNCHANGED <<shootingStars, scene, sphereRot, starFieldRot, nextId>>
         /\ listener => (camera' = Aspect(window') /\ rendererSize' = window')]_vars
C8_Witness ==
    /\ listener
    /\ window # InitialWindow
    /\ ticks >= 2
    /\ Replacements # {}
    /\ rendererSize = window

\* C9: a star is replaced in a tick iff, after its advance, some coordinate
\* of its first endpoint exceeds 1000 in absolute value; a star whose second
\* endpoint alone is beyond the bound stays and is advanced.
C9_FirstEndpointOnly ==
    [][pc = "stars" =>
         /\ (shootingStars'[slot].id # shootingStars[slot].id) <=> FirstBeyond(MovedAt(slot))
         /\ (SecondBeyond(MovedAt(slot)) /\ FirstWithin(MovedAt(slot))) =>
              shootingStars'[slot] =
                 [shootingStars[slot] EXCEPT !.positions = MovedAt(slot)]]_vars
C9_Witness ==
    /\ pc = "idle"
    /\ \E i \in 1..Len(shootingStars) :
         /\ FirstWithin(shootingStars[i].positions)
         /\ \E k \in 4..6 : Abs(shootingStars[i].positions[k]) >= Limit + Unit \div 8

\* C10 (as stated): at every render call every pooled star has its first
\* endpoint inside [-1000, 1000] on each axis; a replacement is spawned with
\* both endpoints at distance in [100, 1000] from the origin and is not
\* visited again by the forEach of the tick that spawned it.
C10_Original ==
    /\ [](pc = "render" =>
            \A i \in 1..Len(shootingStars) : FirstWithin(shootingStars[i].positions))
    /\ [][pc = "stars" =>
            \A j \in 1..Len(shootingStars') :
               shootingStars'[j].id \notin PoolIds(shootingStars) =>
                  /\ InShell(shootingStars'[j].positions, 0)
                  /\ InShell(shootingStars'[j].positions, 1)
                  /\ pc' = "stars" => slot' > j]_vars

\* C10 (amended): as stated, except that the distance of a spawned endpoint
\* from the origin is in [100, 1000] only up to the rounding of its three
\* coordinates to Float32 (relative error at most 2^-22): an endpoint drawn
\* at radius 100 can be stored marginally closer to the origin than 100.
C10_InBoundsAtRender ==
    /\ [](pc = "render" =>
            \A i \in 1..Len(shootingStars) : FirstWithin(shootingStars[i].positions))
    /\ [][pc = "stars" =>
            \A j \in 1..Len(shootingStars') :
               shootingStars'[j].id \notin PoolIds(shootingStars) =>
                  /\ InShellRounded(shootingStars'[j].positions, 0)
                  /\ InShellRounded(shootingStars'[j].positions, 1)
                  /\ pc' = "stars" => slot' > j]_vars
C10_Witness ==
    /\ pc = "render"
    /\ \E i \in Replacements :
         /\ shootingStars[i].id = nextId - 1
         /\ ~InShell(shootingStars[i].positions, 0)
====
